---------------------------- MODULE Spec2Model ----------------------------
(***************************************************************************)
(* MSR206 magnetic card reader/writer front ends (msre206_v0.2.py,         *)
(* msre206_cc.py, msre206_debug.py): the protocol codec (command frames,   *)
(* status classification, idle-window drain, track decoding) and the card  *)
(* number generator (Luhn check digit, brand prefixes, track rendering).   *)
(*                                                                         *)
(* Text is a sequence of character codes, a byte string a sequence of      *)
(* 0..255, a digit string a sequence of 0..9.  Time is counted in whole    *)
(* seconds, the unit of DEFAULT_TIMEOUT.                                   *)
(***************************************************************************)
EXTENDS Integers, Sequences, FiniteSets, TLC

VARIABLES
    variant,         \* which program runs: "v0.2", "cc" or "debug"
    pc,              \* position of the (single) GUI thread
    op,              \* the button handler that is running or has just returned
    track1,          \* track1_var
    track2,          \* track2_var
    track3,          \* track3_var
    raw_data,        \* raw_data_var
    card_type,       \* generate_credit_card: the requested brand
    prefix,          \* generate_credit_card: the chosen prefix (digits)
    card_number,     \* generate_credit_card: the current candidate (digits)
    device,          \* the serial handle: "none", "open" or "closed"
    attempts,        \* serial.Serial(...) calls made by the handler
    sent,            \* the frames the handler wrote, in order
    rx,              \* bytes received and not yet read (the input buffer)
    pending,         \* bytes the device has still to send
    stream,          \* TRUE while the device sends without pause
    response,        \* send_command's return value
    data,            \* read_until_complete's accumulator
    chunks,          \* the polls of the running drain: [at, bytes]
    now,             \* time.time(), counted from the handler's start
    start_time,      \* read_until_complete's start_time
    status_message,  \* parse_response's return value
    error,           \* the error the handler logged, "" if none
    raised           \* TRUE when an exception left the handler

vars == <<variant, pc, op, track1, track2, track3, raw_data, card_type, prefix,
          card_number, device, attempts, sent, rx, pending, stream, response,
          data, chunks, now, start_time, status_message, error, raised>>

tracks == <<track1, track2, track3, raw_data>>
genLocals == <<card_type, prefix, card_number>>
wire == <<rx, pending, stream>>
drainLocals == <<data, chunks, start_time>>

-----------------------------------------------------------------------------
(* Bounds of the model.                                                    *)

\* The random digits of a card number are the decimal digits of 0..MaxFill,
\* left-padded with zeros to the width the generator asks for.
MaxFill == 99

\* Longest byte sequence handed to parse_response on its own.
MaxLen == 3

\* Longest reply the device sends to one command (when it does not stream).
MaxReply == 2

\* device.read(1024): the size of one poll, scaled.
ReadSize == 1

-----------------------------------------------------------------------------
(* Helpers on sequences.                                                   *)

RECURSIVE Flatten(_)
Flatten(ss) == IF ss = <<>> THEN <<>> ELSE Head(ss) \o Flatten(Tail(ss))

RECURSIVE SumSeq(_)
SumSeq(s) == IF s = <<>> THEN 0 ELSE Head(s) + SumSeq(Tail(s))

BoundedSeq(S, n) == UNION {[1..k -> S] : k \in 0..n}

Take(s, k) == SubSeq(s, 1, k)
Drop(s, k) == SubSeq(s, k + 1, Len(s))

\* str(d) for a digit, and the text of a digit string
DigitChar(d) == 48 + d
DigitText(ds) == [k \in 1..Len(ds) |-> DigitChar(ds[k])]

-----------------------------------------------------------------------------
(* The luhn package (from luhn import append, verify).                     *)

\* sum(divmod(2 * d, 10))
DoubleDigit(d) == ((2 * d) \div 10) + ((2 * d) % 10)

\* luhn.checksum: digits at even offset from the right are summed as they
\* are, digits at odd offset are doubled.
checksum(ds) ==
    SumSeq([k \in 1..Len(ds) |->
              IF (Len(ds) - k) % 2 = 0 THEN ds[k] ELSE DoubleDigit(ds[k])]) % 10

verify(ds) == checksum(ds) = 0

\* luhn.generate and luhn.append
generate(ds) == (10 - checksum(ds \o <<0>>)) % 10
append(ds) == ds \o <<generate(ds)>>

-----------------------------------------------------------------------------
(* Card number generator.                                                  *)

\* msre206_debug.py: prefixes
prefixes ==
    [visa |-> {<<4>>},
     mastercard |-> {<<5, 1>>, <<5, 2>>, <<5, 3>>, <<5, 4>>, <<5, 5>>},
     american_express |-> {<<3, 4>>, <<3, 7>>},
     discover |-> {<<6, 0, 1, 1>>, <<6, 5>>}]

Brands == DOMAIN prefixes

\* what card_type_var may hold: the four menu entries, or anything else
CardTypes == Brands \cup {"maestro"}

\* every brand is given sixteen digits
DebugLength_sixteen(ct) == 16

\* msre206_debug.py: length = 16 if card_type != "american_express" else 15
DebugLength(ct) == IF ct # "american_express" THEN 16 ELSE 15

\* msre206_cc.py: prefixes and lengths (card_type is fixed to "Visa")
CcPrefixes == [Visa |-> {<<4>>}]
CcLengths == [Visa |-> 16]
CcCardType == "Visa"

\* "".join(random digit for _ in range(n)): the digits of a drawn number
RECURSIVE Fill(_, _)
Fill(r, n) == IF n = 0 THEN <<>> ELSE Fill(r \div 10, n - 1) \o <<r % 10>>
Draws == 0..MaxFill

\* the draw yields the same digit every time (randint(0, 0))
RandomDigits_stuck(r, n) == Fill(0, n)

\* "".join(str(random.randint(0, 9)) for _ in range(n))
RandomDigits(r, n) == Fill(r, n)

\* msre206_debug.py: the checksum of the candidate before its check digit,
\* sum(int(d) if i % 2 == 0 else sum(divmod(int(d) * 2, 10))
\*     for i, d in enumerate(reversed(card_number))) % 10
DebugChecksum(ds) ==
    SumSeq([k \in 1..Len(ds) |->
              IF (Len(ds) - k) % 2 = 0 THEN ds[k] ELSE DoubleDigit(ds[k])]) % 10

\* card_number += str((10 - checksum) % 10)
DebugCheckDigit(ds) == (10 - DebugChecksum(ds)) % 10

DebugCandidate(pre, ct, r) ==
    LET partial == pre \o RandomDigits(r, DebugLength(ct) - Len(pre) - 1)
    IN  partial \o <<DebugCheckDigit(partial)>>

\* the candidate is returned unchecked
GenAccepts_unchecked(ds) == TRUE

\* if verify(card_number): return card_number
GenAccepts(ds) == verify(ds)

\* msre206_debug.py: generate_card_tracks
Name == <<67, 65, 82, 68, 72, 79, 76, 68, 69, 82, 47, 78, 65, 77, 69>>
ExpirationDate == <<50, 53, 49, 50>>
ServiceCode == <<49, 48, 49>>

generate_card_tracks(ds) ==
    [t1 |-> <<37, 66>> \o DigitText(ds) \o <<94>> \o Name \o <<94>>
              \o ExpirationDate \o ServiceCode \o <<63>>,
     t2 |-> <<59>> \o DigitText(ds) \o <<61>>
              \o ExpirationDate \o ServiceCode \o <<63>>]

\* msre206_cc.py: f"{random.randint(23, 30):02}{random.randint(1, 12):02}"
TwoDigits(n) == <<DigitChar(n \div 10), DigitChar(n % 10)>>
Expiries == {TwoDigits(y) \o TwoDigits(m) : y \in 23..30, m \in 1..12}

CcName == <<67, 65, 82, 68, 72, 79, 76, 68, 69, 82>>

CcTracks(ds, expiry) ==
    [t1 |-> <<37, 66>> \o DigitText(ds) \o <<94>> \o CcName \o <<47>>
              \o expiry \o <<94>> \o ServiceCode \o <<63>>,
     t2 |-> <<59>> \o DigitText(ds) \o <<61>> \o expiry \o ServiceCode \o <<63>>]

-----------------------------------------------------------------------------
(* Protocol codec: text and bytes.                                         *)

ESC == 27
FS == 28
QuestionMark == 63

\* str.encode(): UTF-8, one byte below 128, two bytes below 2048
Utf8Char(c) ==
    IF c < 128 THEN <<c>> ELSE <<192 + (c \div 64), 128 + (c % 64)>>

encode(text) == Flatten([k \in 1..Len(text) |-> Utf8Char(text[k])])

\* every byte is taken for a character (a decode that cannot fail)
decode_latin1(bs) == [ok |-> TRUE, text |-> bs]

\* bytes.decode(): strict UTF-8.  ok is FALSE where UnicodeDecodeError is
\* raised.  Lead bytes of three- and four-byte forms are outside the byte
\* sets of this model.
RECURSIVE decode(_)
decode(bs) ==
    IF bs = <<>> THEN [ok |-> TRUE, text |-> <<>>]
    ELSE IF bs[1] < 128
         THEN LET rest == decode(Tail(bs))
              IN  [ok |-> rest.ok, text |-> <<bs[1]>> \o rest.text]
    ELSE IF /\ bs[1] >= 194 /\ bs[1] <= 223
            /\ Len(bs) >= 2 /\ bs[2] >= 128 /\ bs[2] <= 191
         THEN LET rest == decode(Drop(bs, 2))
              IN  [ok |-> rest.ok,
                   text |-> <<(bs[1] - 192) * 64 + (bs[2] - 128)>> \o rest.text]
    ELSE [ok |-> FALSE, text |-> <<>>]

\* bytes.hex(): two lowercase hexadecimal digits per byte
HexDigit(n) == IF n < 10 THEN 48 + n ELSE 87 + n
hex(bs) == Flatten([k \in 1..Len(bs) |-> <<HexDigit(bs[k] \div 16), HexDigit(bs[k] % 16)>>])

\* the character class [^\x1B[^\x20-\x7E] of the cleaning pattern; in
\* msre206_debug.py the class also leaves out U+00E2 and U+203A
InClass(c) ==
    /\ c # ESC
    /\ ~(c >= 32 /\ c <= 126)
    /\ variant = "debug" => c \notin {226, 8250}

\* re.sub(r'\x1B[^\x1B[^\x20-\x7E]*', '', text): every ESC goes, with the
\* run of class characters that follows it
RECURSIVE SkipClass(_)
SkipClass(text) ==
    IF text # <<>> /\ InClass(Head(text)) THEN SkipClass(Tail(text)) ELSE text

RECURSIVE clean(_)
clean(text) ==
    IF text = <<>> THEN <<>>
    ELSE IF Head(text) = ESC THEN clean(SkipClass(Tail(text)))
    ELSE <<Head(text)>> \o clean(Tail(text))

\* str.split('?'): the fields between the separators, at least one
RECURSIVE split(_, _)
split(text, sep) ==
    IF \A k \in 1..Len(text) : text[k] # sep THEN <<text>>
    ELSE LET k == CHOOSE i \in 1..Len(text) :
                      text[i] = sep /\ \A j \in 1..(i - 1) : text[j] # sep
         IN  <<Take(text, k - 1)>> \o split(Drop(text, k), sep)

\* str.strip(): white space goes from both ends
IsSpace(c) == c \in {9, 10, 11, 12, 13, 28, 29, 30, 31, 32, 133, 160}

RECURSIVE lstrip(_)
lstrip(text) ==
    IF text # <<>> /\ IsSpace(Head(text)) THEN lstrip(Tail(text)) ELSE text

RECURSIVE rstrip(_)
rstrip(text) ==
    IF text # <<>> /\ IsSpace(text[Len(text)])
    THEN rstrip(Take(text, Len(text) - 1)) ELSE text

strip(text) == rstrip(lstrip(text))

-----------------------------------------------------------------------------
(* Protocol codec: commands.                                               *)

ReadCommand == <<ESC, 114>>                 \* '\x1Br'
ReadRawCommand == <<ESC, 109>>              \* '\x1Bm'
LoCoCommand == <<ESC, 121>>                 \* '\x1By'
HiCoCommand == <<ESC, 120>>                 \* '\x1Bx'
ResetCommand == <<ESC, 97>>                 \* '\x1Ba'

\* f'\x1Bw\x1Bs\x1B\x01{track1}\x1B\x02{track2}\x1B\x03{track3}?\x1C'
WriteCommand(t1, t2, t3) ==
    <<ESC, 119, ESC, 115, ESC, 1>> \o t1 \o <<ESC, 2>> \o t2
        \o <<ESC, 3>> \o t3 \o <<QuestionMark, FS>>

\* f'\x1Bw\x1Bs\x1B\x01{track1}\x1B\x02{track2}\x1C'
GeneratedWriteCommand(t1, t2) ==
    <<ESC, 119, ESC, 115, ESC, 1>> \o t1 \o <<ESC, 2>> \o t2 \o <<FS>>

\* f'\x1Bn{raw_data}\x1C'
WriteRawCommand(raw) == <<ESC, 110>> \o raw \o <<FS>>

-----------------------------------------------------------------------------
(* Protocol codec: status classification.                                  *)

startswith(bs, p) == Len(bs) >= Len(p) /\ Take(bs, Len(p)) = p
endswith(bs, p) == Len(bs) >= Len(p) /\ Drop(bs, Len(bs) - Len(p)) = p

Message(t) == [text |-> t, code |-> <<>>]
NoMessage == Message("")

\* status_codes.get(status, f"Unknown status: {status.hex()}")
status_codes(status) ==
    IF status = <<48>> THEN Message("Operation successful.")
    ELSE IF status = <<49>> THEN Message("Write or read error.")
    ELSE IF status = <<50>> THEN Message("Command format error.")
    ELSE IF status = <<52>> THEN Message("Invalid command.")
    ELSE IF status = <<57>> THEN Message("Invalid card swipe when in write mode.")
    ELSE [text |-> "Unknown status: ", code |-> hex(status)]

\* the length test lets two-byte replies through
parse_response_two_bytes(bs) ==
    IF startswith(bs, <<ESC>>) /\ endswith(bs, <<ESC, 48>>)
    THEN Message("Operation successful.")
    ELSE IF startswith(bs, <<ESC>>) /\ Len(bs) >= 2
    THEN status_codes(Drop(bs, Len(bs) - 1))
    ELSE Message("No valid response received.")

parse_response(bs) ==
    IF startswith(bs, <<ESC>>) /\ endswith(bs, <<ESC, 48>>)
    THEN Message("Operation successful.")
    ELSE IF startswith(bs, <<ESC>>) /\ Len(bs) > 2
    THEN status_codes(Drop(bs, Len(bs) - 1))
    ELSE Message("No valid response received.")

\* "successful" in status_message
IsSuccessful(m) == m.text = "Operation successful."

-----------------------------------------------------------------------------
(* The transport and the device behind it.                                 *)

\* DEFAULT_TIMEOUT = 5: the serial read timeout and the drain's window
DEFAULT_TIMEOUT == 5

\* bytes the device answers a read-tracks command with
TrackBytes == {ESC, QuestionMark, 65, 255}

\* bytes the device answers a read-raw command with
RawBytes == {255}

\* bytes the device answers a control command with
StatusBytes == {ESC, 48, 57, 255}

\* the byte a streaming device repeats (it streams after a read-tracks
\* command only)
Filler == QuestionMark

Blank ==
    /\ pc = "idle" /\ op = ""
    /\ card_type = "" /\ prefix = <<>> /\ card_number = <<>>
    /\ device = "none" /\ attempts = 0 /\ sent = <<>>
    /\ rx = <<>> /\ pending = <<>> /\ stream = FALSE
    /\ response = <<>> /\ data = <<>> /\ chunks = <<>>
    /\ now = 0 /\ start_time = 0
    /\ status_message = NoMessage /\ error = "" /\ raised = FALSE

\* the program of msre206_v0.2.py, its window just opened
Init ==
    /\ variant = "v0.2"
    /\ track1 = <<>> /\ track2 = <<>> /\ track3 = <<>> /\ raw_data = <<>>
    /\ Blank

\* what the user may have typed into an entry field
Typed == {<<>>, <<65>>}

\* the programs with a generator, msre206_cc.py and msre206_debug.py
InitGen ==
    /\ variant \in {"cc", "debug"}
    /\ track1 \in Typed /\ track2 \in Typed
    /\ track3 = <<>> /\ raw_data = <<>>
    /\ Blank

\* bytes parse_response is tried on by itself
ParseBytes == {0, ESC, 48, 49, 50, 52, 57, 255}

\* parse_response about to be called on some response
InitParse ==
    /\ variant = "v0.2"
    /\ track1 = <<>> /\ track2 = <<>> /\ track3 = <<>> /\ raw_data = <<>>
    /\ pc = "idle" /\ op = ""
    /\ card_type = "" /\ prefix = <<>> /\ card_number = <<>>
    /\ device = "none" /\ attempts = 0 /\ sent = <<>>
    /\ rx = <<>> /\ pending = <<>> /\ stream = FALSE
    /\ response \in BoundedSeq(ParseBytes, MaxLen)
    /\ data = <<>> /\ chunks = <<>>
    /\ now = 0 /\ start_time = 0
    /\ status_message = NoMessage /\ error = "" /\ raised = FALSE

\* a failed open is tried a second time
connect_device_retry(ok) ==
    /\ attempts' = attempts + (IF ok THEN 1 ELSE 2)
    /\ device' = IF ok THEN "open" ELSE "none"

\* connect_device(): serial.Serial(...) returns a handle or raises, and the
\* exception becomes None
connect_device(ok) ==
    /\ attempts' = attempts + 1
    /\ device' = IF ok THEN "open" ELSE "none"

\* the handler returns without device.close()
connect_and_stay_open ==
    /\ attempts' = attempts + 1
    /\ device' = "open"

\* connect_device() and, at the handler's end, device.close()
connect_and_close ==
    /\ attempts' = attempts + 1
    /\ device' = "closed"

\* the handler returns right after a failed connect_device()
NotConnected(o) ==
    /\ pc = "idle"
    /\ connect_device(FALSE)
    /\ op' = o
    /\ pc' = "returned"
    /\ UNCHANGED <<variant, tracks, genLocals, sent, wire, response,
                   drainLocals, now, status_message, error, raised>>

\* send_command(device, command): write, sleep 0.1 s, read_all().  The
\* device answers with a reply of its choosing, of which the first k bytes
\* are in by the time read_all() runs; or it starts to stream.
send_command(command, Replies, mayStream) ==
    \E reply \in Replies, k \in 0..MaxReply, s \in {FALSE, mayStream} :
        /\ k <= Len(reply)
        /\ s => reply = <<>>
        /\ sent' = Append(sent, encode(command))
        /\ response' = rx \o Take(reply, k)
        /\ rx' = <<>>
        /\ pending' = Drop(reply, k)
        /\ stream' = s

-----------------------------------------------------------------------------
(* Control commands: the whole exchange runs without a wait in between.    *)

\* response = send_command(...); status_message = parse_response(response);
\* device.close()
Control(o, command) ==
    /\ pc = "idle"
    /\ connect_and_close
    /\ send_command(command, BoundedSeq(StatusBytes, MaxReply), FALSE)
    /\ status_message' = parse_response(response')
    /\ error' = IF IsSuccessful(status_message') THEN "" ELSE "Error"
    /\ op' = o
    /\ pc' = "returned"
    /\ UNCHANGED <<variant, tracks, genLocals, drainLocals, now, raised>>

write_card ==
    \/ NotConnected("write_card")
    \/ Control("write_card", WriteCommand(track1, track2, track3))

write_raw_data ==
    \/ NotConnected("write_raw_data")
    \/ Control("write_raw_data", WriteRawCommand(raw_data))

set_lo_co ==
    \/ NotConnected("set_lo_co")
    \/ Control("set_lo_co", LoCoCommand)

set_hi_co ==
    \/ NotConnected("set_hi_co")
    \/ Control("set_hi_co", HiCoCommand)

\* reset_device(): the response is not classified, only tested for emptiness
reset_device ==
    \/ NotConnected("reset_device")
    \/ /\ pc = "idle"
       /\ connect_and_close
       /\ send_command(ResetCommand, BoundedSeq(StatusBytes, MaxReply), FALSE)
       /\ error' = IF response' # <<>> THEN "" ELSE "Failed to reset the device."
       /\ op' = "reset_device"
       /\ pc' = "returned"
       /\ UNCHANGED <<variant, tracks, genLocals, drainLocals, now,
                      status_message, raised>>

-----------------------------------------------------------------------------
(* Read commands: send, then drain the transport.                          *)

\* send_command(device, '\x1Br' or '\x1Bm'), its return value dropped, and
\* the first lines of read_until_complete
StartRead(o, command, Replies, mayStream) ==
    /\ pc = "idle"
    /\ connect_device(TRUE)
    /\ send_command(command, Replies, mayStream)
    /\ data' = <<>>
    /\ chunks' = <<>>
    /\ start_time' = now
    /\ op' = o
    /\ pc' = "drain"
    /\ UNCHANGED <<variant, tracks, genLocals, now, status_message, error, raised>>

read_card ==
    \/ NotConnected("read_card")
    \/ StartRead("read_card", ReadCommand, BoundedSeq(TrackBytes, MaxReply), TRUE)

read_raw_data ==
    \/ NotConnected("read_raw_data")
    \/ StartRead("read_raw_data", ReadRawCommand, BoundedSeq(RawBytes, MaxReply),
                 FALSE)

\* while time.time() - start_time < timeout
LoopCondition(t, start) == t - start < DEFAULT_TIMEOUT

\* the chunk is put in front of the data
Accumulate_in_front(d, chunk) == chunk \o d

\* data += chunk
Accumulate(d, chunk) == d \o chunk

\* What one device.read(1024) can return, and when.  The call returns as
\* soon as ReadSize bytes are there, and otherwise when its timeout expires,
\* with the bytes it has.  A streaming device fills a whole read in no less
\* than one second (1024 bytes at 9600 baud), or stops streaming.
Reads ==
    IF stream
    THEN {[chunk |-> [k \in 1..ReadSize |-> Filler], took |-> d,
           rx |-> <<>>, pending |-> <<>>, stream |-> TRUE] :
              d \in 1..DEFAULT_TIMEOUT}
         \cup
         {[chunk |-> [k \in 1..j |-> Filler], took |-> DEFAULT_TIMEOUT,
           rx |-> <<>>, pending |-> <<>>, stream |-> FALSE] :
              j \in 0..(ReadSize - 1)}
    ELSE UNION {
           LET avail == rx \o Take(pending, j)
           IN  IF Len(avail) >= ReadSize
               THEN {[chunk |-> Take(avail, ReadSize), took |-> d,
                      rx |-> Drop(avail, ReadSize), pending |-> Drop(pending, j),
                      stream |-> FALSE] :
                         d \in (IF j = 0 THEN {0} ELSE 0..DEFAULT_TIMEOUT)}
               ELSE {[chunk |-> avail, took |-> DEFAULT_TIMEOUT,
                      rx |-> <<>>, pending |-> Drop(pending, j),
                      stream |-> FALSE]}
           : j \in (IF Len(rx) >= ReadSize THEN {0} ELSE 0..Len(pending))}

\* track1_var.set(tracks[0].strip()) and so on, for the fields there are
SetTracks(fields) ==
    /\ track1' = IF Len(fields) >= 1 THEN strip(fields[1]) ELSE track1
    /\ track2' = IF Len(fields) >= 2 THEN strip(fields[2]) ELSE track2
    /\ track3' = IF Len(fields) >= 3 THEN strip(fields[3]) ELSE track3

\* the rest of read_card / read_raw_data once the drain has returned d
Finish(d) ==
    /\ IF d = <<>>
       THEN /\ error' = "No data received from the card."
            /\ UNCHANGED tracks
       ELSE IF op = "read_raw_data"
       THEN /\ raw_data' = hex(d)
            /\ error' = ""
            /\ UNCHANGED <<track1, track2, track3>>
       ELSE LET decoded == decode(d)
            IN  IF decoded.ok
                THEN /\ SetTracks(split(clean(decoded.text), QuestionMark))
                     /\ error' = ""
                     /\ UNCHANGED raw_data
                ELSE /\ error' = "Failed to decode the response."
                     /\ UNCHANGED tracks
    /\ device' = "closed"
    /\ pc' = "returned"

\* one turn of the loop whose read returns bytes
Poll ==
    /\ pc = "drain"
    /\ LoopCondition(now, start_time)
    /\ \E r \in Reads :
          /\ r.chunk # <<>>
          /\ data' = Accumulate(data, r.chunk)
          /\ chunks' = Append(chunks, [at |-> now, bytes |-> r.chunk])
          /\ now' = now + r.took
          /\ rx' = r.rx /\ pending' = r.pending /\ stream' = r.stream
    /\ UNCHANGED <<variant, pc, op, tracks, genLocals, device, attempts, sent,
                   response, start_time, status_message, error, raised>>

\* the turn whose read returns nothing: break
PollEmpty ==
    /\ pc = "drain"
    /\ LoopCondition(now, start_time)
    /\ \E r \in Reads :
          /\ r.chunk = <<>>
          /\ chunks' = Append(chunks, [at |-> now, bytes |-> r.chunk])
          /\ now' = now + r.took
          /\ rx' = r.rx /\ pending' = r.pending /\ stream' = r.stream
    /\ pc' = "drained"
    /\ UNCHANGED <<variant, op, tracks, genLocals, device, attempts, sent,
                   response, data, start_time, status_message, error, raised>>

\* the loop condition fails
WindowElapsed ==
    /\ pc = "drain"
    /\ ~LoopCondition(now, start_time)
    /\ pc' = "drained"
    /\ UNCHANGED <<variant, op, tracks, genLocals, device, attempts, sent,
                   wire, response, drainLocals, now, status_message, error,
                   raised>>

\* read_until_complete has returned data: the handler runs to its end
FinishRead ==
    /\ pc = "drained"
    /\ Finish(data)
    /\ UNCHANGED <<variant, op, genLocals, attempts, sent, wire, response,
                   drainLocals, now, status_message, raised>>

\* back in the Tk main loop: the handler's locals are gone
MainLoop ==
    /\ pc = "returned"
    /\ pc' = "idle" /\ op' = ""
    /\ card_type' = "" /\ prefix' = <<>> /\ card_number' = <<>>
    /\ device' = "none" /\ attempts' = 0 /\ sent' = <<>>
    /\ rx' = <<>> /\ pending' = <<>> /\ stream' = FALSE
    /\ response' = <<>> /\ data' = <<>> /\ chunks' = <<>>
    /\ now' = 0 /\ start_time' = 0
    /\ status_message' = NoMessage /\ error' = "" /\ raised' = FALSE
    /\ UNCHANGED <<variant, tracks>>

Next ==
    \/ read_card
    \/ write_card
    \/ read_raw_data
    \/ write_raw_data
    \/ set_lo_co
    \/ set_hi_co
    \/ reset_device
    \/ Poll
    \/ PollEmpty
    \/ WindowElapsed
    \/ FinishRead
    \/ MainLoop

Spec == Init /\ [][Next]_vars

\* a read that was started returns (with bytes or at its timeout), and the
\* thread goes on
Drain == Poll \/ PollEmpty \/ WindowElapsed

LiveSpec == Spec /\ WF_vars(Drain)

-----------------------------------------------------------------------------
(* The generator programs.                                                 *)

\* the device is opened before the number is generated
write_card_with_generated_number_connect_first ==
    /\ pc = "idle"
    /\ variant = "debug"
    /\ op' = "write_card_with_generated_number"
    /\ \E ct \in CardTypes :
          /\ card_type' = ct
          /\ IF ct \notin Brands
             THEN /\ error' = "Unsupported card type."
                  /\ pc' = "returned"
                  /\ connect_device(TRUE)
                  /\ UNCHANGED prefix
             ELSE /\ \E pre \in prefixes[ct] : prefix' = pre
                  /\ pc' = "gen_loop"
                  /\ UNCHANGED <<error, device, attempts>>
    /\ UNCHANGED <<variant, tracks, card_number, sent, wire,
                   response, drainLocals, now, status_message, raised>>

\* msre206_debug.py, write_card_with_generated_number() up to the loop of
\* generate_credit_card(card_type): an unsupported brand raises ValueError,
\* which the handler's except clause logs
write_card_with_generated_number ==
    /\ pc = "idle"
    /\ variant = "debug"
    /\ op' = "write_card_with_generated_number"
    /\ \E ct \in CardTypes :
          /\ card_type' = ct
          /\ IF ct \notin Brands
             THEN /\ error' = "Unsupported card type."
                  /\ pc' = "returned"
                  /\ UNCHANGED prefix
             ELSE /\ \E pre \in prefixes[ct] : prefix' = pre
                  /\ pc' = "gen_loop"
                  /\ UNCHANGED error
    /\ UNCHANGED <<variant, tracks, card_number, device, attempts, sent, wire,
                   response, drainLocals, now, status_message, raised>>

\* the candidates of the loop and verify()'s verdicts on them, tabulated
\* per brand, prefix and draw
Candidates ==
    [ct \in Brands |->
        [pre \in prefixes[ct] |->
            [r \in Draws |->
                LET c == DebugCandidate(pre, ct, r)
                IN  [number |-> c, accepted |-> GenAccepts(c)]]]]

\* one turn of the loop: a candidate is drawn and completed
Attempt(r) ==
    /\ pc = "gen_loop"
    /\ card_number' = Candidates[card_type][prefix][r].number
    /\ UNCHANGED <<variant, op, tracks, card_type, prefix, device, attempts,
                   sent, wire, response, drainLocals, now, status_message,
                   error, raised>>

\* verify() rejects the candidate: the loop goes round
GenerateRetry ==
    /\ pc = "gen_loop"
    /\ pc' = "gen_loop"
    /\ \E r \in Draws :
          /\ ~Candidates[card_type][prefix][r].accepted
          /\ Attempt(r)

\* verify() accepts the candidate: generate_credit_card returns it
GenerateReturn ==
    /\ pc = "gen_loop"
    /\ pc' = "generated"
    /\ \E r \in Draws :
          /\ Candidates[card_type][prefix][r].accepted
          /\ Attempt(r)

\* the rest of write_card_with_generated_number(): the tracks are rendered
\* and shown, then the device is opened and the write command sent
WriteGenerated ==
    /\ pc = "generated"
    /\ LET t == generate_card_tracks(card_number)
       IN  /\ track1' = t.t1
           /\ track2' = t.t2
           /\ \/ /\ connect_device(FALSE)
                 /\ UNCHANGED <<sent, wire, response, status_message, error>>
              \/ /\ connect_and_close
                 /\ send_command(GeneratedWriteCommand(t.t1, t.t2),
                                 BoundedSeq(StatusBytes, MaxReply), FALSE)
                 /\ status_message' = parse_response(response')
                 /\ error' = IF IsSuccessful(status_message') THEN "" ELSE "Error"
    /\ pc' = "returned"
    /\ UNCHANGED <<variant, op, track3, raw_data, genLocals, drainLocals, now,
                   raised>>

\* msre206_cc.py, generate_credit_card(): the brand is fixed
generate_credit_card ==
    /\ pc = "idle"
    /\ variant = "cc"
    /\ op' = "generate_credit_card"
    /\ card_type' = CcCardType
    /\ \E pre \in CcPrefixes[CcCardType], r \in Draws, expiry \in Expiries :
          LET partial_number ==
                  pre \o Fill(r, CcLengths[CcCardType] - Len(pre) - 1)
              number == append(partial_number)
              t == CcTracks(number, expiry)
          IN  /\ prefix' = pre
              /\ card_number' = number
              /\ IF verify(number)
                 THEN /\ track1' = t.t1
                      /\ track2' = t.t2
                      /\ error' = ""
                 ELSE /\ error' = "Failed to generate valid credit card data."
                      /\ UNCHANGED <<track1, track2>>
    /\ pc' = "returned"
    /\ UNCHANGED <<variant, track3, raw_data, device, attempts, sent, wire,
                   response, drainLocals, now, status_message, raised>>

NextGen ==
    \/ write_card_with_generated_number
    \/ GenerateRetry
    \/ GenerateReturn
    \/ WriteGenerated
    \/ generate_credit_card

\* One press of the generator's button in a fresh window: neither handler
\* reads what an earlier handler left behind.
SpecGen == InitGen /\ [][NextGen]_vars

\* the random digits are drawn fairly: a draw that verify() accepts is not
\* passed over for ever
LiveGen == SpecGen /\ WF_vars(GenerateReturn)

-----------------------------------------------------------------------------
(* The program of msre206_debug.py with all its buttons.                   *)

\* the window of msre206_debug.py with whatever the entry fields hold
InitDebug ==
    /\ variant = "debug"
    /\ track1 \in Typed /\ track2 \in Typed /\ track3 \in Typed
    /\ raw_data \in {<<>>, hex(<<255>>)}
    /\ Blank

NextDebug ==
    \/ read_card
    \/ write_card
    \/ read_raw_data
    \/ write_raw_data
    \/ write_card_with_generated_number
    \/ set_lo_co
    \/ set_hi_co
    \/ reset_device
    \/ Poll
    \/ PollEmpty
    \/ WindowElapsed
    \/ FinishRead
    \/ GenerateRetry
    \/ GenerateReturn
    \/ WriteGenerated

\* One press of any button, the entry fields holding anything.
SpecDebug == InitDebug /\ [][NextDebug]_vars

-----------------------------------------------------------------------------
(* parse_response on its own.                                              *)

Classify ==
    /\ pc = "idle"
    /\ op' = "parse_response"
    /\ status_message' = parse_response(response)
    /\ pc' = "returned"
    /\ UNCHANGED <<variant, tracks, genLocals, device, attempts, sent, wire,
                   response, drainLocals, now, error, raised>>

NextParse == Classify

SpecParse == InitParse /\ [][NextParse]_vars

-----------------------------------------------------------------------------
(* Properties of the generator.                                            *)

\* the digits between the start sentinel of a track and its separator
RECURSIVE DigitsUpTo(_, _)
DigitsUpTo(text, sep) ==
    IF text = <<>> \/ Head(text) = sep THEN <<>>
    ELSE <<Head(text) - 48>> \o DigitsUpTo(Tail(text), sep)

PanOfTrack1(t) == DigitsUpTo(Drop(t, 2), 94)
PanOfTrack2(t) == DigitsUpTo(Drop(t, 1), 61)

\* the generator has put a number into the track fields
TracksGenerated ==
    /\ pc = "returned"
    /\ \/ op = "generate_credit_card" /\ error = ""
       \/ op = "write_card_with_generated_number" /\ card_type \in Brands

\* C1: a number that generate_credit_card returns (debug variant), and a
\* number found in the track fields after a generation (both variants),
\* passes the Luhn check.
C1_GeneratedNumberPassesLuhn ==
    /\ pc = "generated" => verify(card_number)
    /\ TracksGenerated =>
          /\ verify(PanOfTrack1(track1))
          /\ verify(PanOfTrack2(track2))
          /\ PanOfTrack1(track1) = card_number
          /\ PanOfTrack2(track2) = card_number

C1_Witness ==
    /\ TracksGenerated
    /\ variant = "debug"
    /\ card_type = "discover"
    /\ PanOfTrack2(track2) = card_number

\* C2: every candidate the generator completes with its own check digit
\* passes the Luhn check, so the loop never goes round a second time.
C2_CheckDigitRoundTrip ==
    (pc \in {"gen_loop", "generated"} /\ card_number # <<>>)
        => verify(card_number)

\* C3: for a supported brand the generate-and-verify loop comes to an end
\* with a number, and nothing is reported as an error on the way.
C3_GeneratorTerminates ==
    /\ [](pc \in {"gen_loop", "generated"} => (error = "" /\ ~raised))
    /\ (pc = "gen_loop") ~> (pc = "generated")

C3_Witness ==
    /\ pc = "generated"
    /\ card_type = "visa"
    /\ error = ""

\* C4: a returned number has the length of its brand, 15 digits for
\* American Express and 16 for the others, and starts with one of the
\* brand's prefixes.
ExpectedLength(ct) ==
    IF ct \in {"american_express", "American Express"} THEN 15 ELSE 16

C4_LengthAndPrefix ==
    /\ pc = "generated" =>
          /\ Len(card_number) = ExpectedLength(card_type)
          /\ \E pre \in prefixes[card_type] : startswith(card_number, pre)
    /\ (pc = "returned" /\ op = "generate_credit_card") =>
          /\ Len(card_number) = ExpectedLength(card_type)
          /\ \E pre \in CcPrefixes[card_type] : startswith(card_number, pre)
    /\ TracksGenerated => Len(PanOfTrack2(track2)) = ExpectedLength(card_type)

C4_Witness ==
    /\ pc = "generated"
    /\ card_type = "american_express"
    /\ Len(card_number) = 15

\* C5: a generate-and-write for a brand the generator does not know ends
\* without a connection attempt, without a byte written or read, with the
\* track fields as they were, and with the error logged, not raised.
C5_UnsupportedBrandBeforeIO ==
    [][(pc = "idle" /\ op' = "write_card_with_generated_number"
            /\ card_type' \notin Brands)
        => /\ pc' = "returned"
           /\ attempts' = 0 /\ device' = "none"
           /\ sent' = <<>> /\ response' = <<>>
           /\ UNCHANGED <<track1, track2, track3, raw_data, rx, pending>>
           /\ error' = "Unsupported card type."
           /\ ~raised']_vars

C5_Witness ==
    /\ pc = "returned"
    /\ op = "write_card_with_generated_number"
    /\ card_type = "maestro"
    /\ track1 = <<65>>
    /\ attempts = 0

-----------------------------------------------------------------------------
(* Properties of the status classification.                                *)

\* the status table of the protocol description
ReferenceTable ==
    (48 :> "Success") @@ (49 :> "ReadWriteError") @@ (50 :> "FormatError")
        @@ (52 :> "InvalidCommand") @@ (57 :> "InvalidSwipeInWriteMode")

Outcome(k, b) == [kind |-> k, byte |-> b]

\* the three rules of the protocol description, in their order
Reference(bs) ==
    LET n == Len(bs)
    IN  IF n >= 2 /\ bs[1] = 27 /\ bs[n - 1] = 27 /\ bs[n] = 48
        THEN Outcome("Success", -1)
        ELSE IF n > 2 /\ bs[1] = 27
        THEN IF bs[n] \in DOMAIN ReferenceTable
             THEN Outcome(ReferenceTable[bs[n]], -1)
             ELSE Outcome("UnknownStatus", bs[n])
        ELSE Outcome("NoResponse", -1)

\* the outcome a message of parse_response stands for
HexValue(c) == IF c >= 97 THEN c - 87 ELSE c - 48

OutcomeOf(m) ==
    IF m.text = "Operation successful." THEN Outcome("Success", -1)
    ELSE IF m.text = "Write or read error." THEN Outcome("ReadWriteError", -1)
    ELSE IF m.text = "Command format error." THEN Outcome("FormatError", -1)
    ELSE IF m.text = "Invalid command." THEN Outcome("InvalidCommand", -1)
    ELSE IF m.text = "Invalid card swipe when in write mode."
    THEN Outcome("InvalidSwipeInWriteMode", -1)
    ELSE IF m.text = "Unknown status: " /\ Len(m.code) = 2
    THEN Outcome("UnknownStatus", 16 * HexValue(m.code[1]) + HexValue(m.code[2]))
    ELSE IF m.text = "No valid response received." THEN Outcome("NoResponse", -1)
    ELSE Outcome("none", -1)

Classified == pc = "returned" /\ op = "parse_response"

\* C6: parse_response gives every byte sequence the one outcome that the
\* three rules, applied in order, give it.
C6_ClassifierFollowsRules ==
    Classified => OutcomeOf(status_message) = Reference(response)

C6_Witness ==
    /\ Classified
    /\ response = <<27, 0, 255>>
    /\ OutcomeOf(status_message) = Outcome("UnknownStatus", 255)

\* C7: the five reference replies are classified as NoResponse, Success,
\* ReadWriteError, InvalidSwipeInWriteMode and UnknownStatus respectively.
C7_ReferenceReplies ==
    Classified =>
        /\ response = <<>> => OutcomeOf(status_message).kind = "NoResponse"
        /\ response = <<27, 48>> => OutcomeOf(status_message).kind = "Success"
        /\ response = <<27, 0, 49>>
              => OutcomeOf(status_message).kind = "ReadWriteError"
        /\ response = <<27, 57>>
              => OutcomeOf(status_message).kind = "InvalidSwipeInWriteMode"
        /\ response = <<255, 255>>
              => OutcomeOf(status_message).kind = "UnknownStatus"

-----------------------------------------------------------------------------
(* Properties of the handlers.                                             *)

FieldOrEmpty(fields, i) == IF i <= Len(fields) THEN fields[i] ELSE <<>>

\* C8: after read_card has decoded a response, track i is field i of the
\* cleaned text, and empty when the text has no field i.
C8_AbsentTracksEmpty ==
    (pc = "returned" /\ op = "read_card" /\ data # <<>> /\ decode(data).ok) =>
        LET fields == split(clean(decode(data).text), 63)
        IN  /\ track1 = FieldOrEmpty(fields, 1)
            /\ track2 = FieldOrEmpty(fields, 2)
            /\ track3 = FieldOrEmpty(fields, 3)

\* the write-tracks frame of the protocol description
ReferenceWriteFrame(t1, t2, t3) ==
    <<27, 119, 27, 115, 27, 1>> \o t1 \o <<27, 2>> \o t2 \o <<27, 3>> \o t3
        \o <<63, 28>>

\* C9: a handler that writes tracks sends the frame
\* ESC w ESC s ESC 01 t1 ESC 02 t2 ESC 03 t3 ? FS with the track fields in
\* it, and a handler that reads tracks sends 1B 72.
C9_FramesOnTheWire ==
    /\ (op \in {"write_card", "write_card_with_generated_number"}
            /\ sent # <<>>)
          => sent = <<ReferenceWriteFrame(track1, track2, track3)>>
    /\ (op = "read_card" /\ sent # <<>>) => sent = <<<<27, 114>>>>

\* the bytes of the polls so far, in their order
PolledBytes == Flatten([i \in 1..Len(chunks) |-> chunks[i].bytes])

Draining == op \in {"read_card", "read_raw_data"} /\ device # "none"

DrainInvariant ==
    Draining =>
        /\ data = PolledBytes
        /\ \A i \in 1..Len(chunks) :
              /\ chunks[i].at - start_time < 5
              /\ chunks[i].bytes = <<>> => (i = Len(chunks) /\ pc # "drain")
        /\ pc # "drain" =>
              \/ chunks # <<>> /\ chunks[Len(chunks)].bytes = <<>>
              \/ now - start_time >= 5

\* C10: read_until_complete returns the bytes of its polls in their order,
\* ends at the first poll without bytes or else when the window is over,
\* starts no poll once the window is over, and comes to an end.
C10_DrainCollectsAndEnds ==
    /\ []DrainInvariant
    /\ (pc = "drain") ~> (pc = "drained")

C10_Witness ==
    /\ pc = "drained"
    /\ op = "read_card"
    /\ stream
    /\ Len(chunks) = 5
    /\ now - start_time >= 5

-----------------------------------------------------------------------------
(* Properties of the exchanges.                                            *)

\* C11: read_until_complete has returned no later than one idle window
\* (DEFAULT_TIMEOUT) after it started.
C11_DrainLatency ==
    pc = "drained" => now - start_time <= 5

ReadOps == {"read_card", "read_raw_data"}

\* C12: when the drained bytes are not valid text (they hold a byte that no
\* UTF-8 text holds), read_card ends without raising, with the three track
\* fields as they were and the device closed.
NotText(bs) == \E i \in 1..Len(bs) : bs[i] \in {192, 193} \cup (245..255)

C12_DecodeFailureHandled ==
    [][(pc = "drained" /\ op = "read_card" /\ NotText(data))
        => /\ pc' = "returned"
           /\ UNCHANGED <<track1, track2, track3>>
           /\ device' = "closed"
           /\ ~raised']_vars

C12_Witness ==
    /\ pc = "returned"
    /\ op = "read_card"
    /\ data = <<255>>
    /\ track2 = <<65>>
    /\ device = "closed"

\* the handler's connect_device() has failed
ConnectFailed == device = "none" /\ attempts > 0

\* C13: an operation whose open fails has made exactly one connection
\* attempt and has returned, with no byte written or read and no response
\* classified.
C13_OpenFailureAborts ==
    ConnectFailed =>
        /\ attempts = 1
        /\ pc = "returned"
        /\ sent = <<>> /\ response = <<>> /\ data = <<>> /\ chunks = <<>>
        /\ rx = <<>> /\ pending = <<>>
        /\ status_message = NoMessage

C13_Witness ==
    /\ ConnectFailed
    /\ op = "write_card_with_generated_number"
    /\ card_number # <<>>
    /\ sent = <<>>

ControlOps == {"write_card", "write_raw_data", "set_lo_co", "set_hi_co"}

\* C14: a control command's status is the classification of everything the
\* device delivers in reply to it, the bytes that come later than the one
\* read after the write included.
C14_LateStatusClassified ==
    (pc = "returned" /\ op \in ControlOps /\ device = "closed") =>
        status_message = parse_response(response \o pending)

\* C15: the bytes read_card and read_raw_data go on to decode are all the
\* bytes the device has delivered since the read command was written, in
\* their order: those the read inside send_command took, then those of the
\* drain's polls.
C15_NoByteLost ==
    (pc \in {"drained", "returned"} /\ op \in ReadOps /\ device # "none") =>
        data = response \o PolledBytes

\* C16: a handler opens at most one connection, a connection is open only
\* while its handler runs, and a handler that has returned has closed the
\* connection it opened.
C16_ConnectionClosed ==
    /\ attempts <= 1
    /\ device = "open" => pc \in {"drain", "drained"}
    /\ (pc = "returned" /\ attempts = 1) => device \in {"closed", "none"}
    /\ (pc = "returned" /\ sent # <<>>) => device = "closed"

C16_Witness ==
    /\ pc = "returned"
    /\ op = "write_card_with_generated_number"
    /\ device = "closed"
    /\ sent # <<>>
    /\ ~IsSuccessful(status_message)

=============================================================================
